---- MODULE Spec2Model ----
(***************************************************************************)
(* discord-media-saver: the gateway client hands the attachments of        *)
(* MESSAGE_CREATE events to the download pipeline, which classifies,       *)
(* size-filters, downloads, hashes and de-duplicates them against an       *)
(* in-memory cache (a JavaScript Map, kept here as the sequence of its     *)
(* keys in insertion order) and an optional durable store.                 *)
(*                                                                         *)
(* One step of the model is one run-to-completion callback of the event    *)
(* loop: a handler runs from the event that wakes it to its next await.    *)
(***************************************************************************)
EXTENDS Integers, Sequences, FiniteSets, TLC

\* ---------------------------------------------------------------- bounds
MaxCache == 2       \* largest configured DUPLICATE_CACHE_SIZE explored
MaxMessages == 2    \* MESSAGE_CREATE events received per run
MaxFaults == 1      \* injected I/O failures (transfer, hashing, stat, store)
MaxRestarts == 1    \* process restarts
MaxTimers == 1      \* identify timers pending at once
MaxSeq == 2         \* largest sequence number a dispatch carries
MaxSent == 1        \* frames sent on one socket that are kept
MaxReconnects == 2  \* connections the health server counts
MaxLen == 3         \* characters of an attachment filename

NULL == "null"
\* No digest: an absent row, an unset local.
NoHash == <<>>
\* sequenceNumber === null
NoSeq == 0

\* ------------------------------------------------------------ input data
\* Remote contents (what a URL serves), extensions, content types, sizes.
Bytes == {"b1", "b2", "b3"}
Exts == {".png", ".PNG", ".mov", ".txt", ""}
ContentTypes == {<<>>, <<"image", "/", "png">>, <<"video", "/", "mp4">>,
                 <<"text", "/", "plain">>}
Sizes == 0 .. 3
Channels == {"c1", "c2"}
Users == {"u1", "u2"}

\* The content of a file whose transfer has not finished.
PARTIAL == "partial"

\* ------------------------------------------------------ FileUtils (pure)
\* A filename is kept as <<base name, extension>>, the extension with its
\* dot, "" when the name has none; a content type as its tokens.
\* String.prototype.toLowerCase on the filenames of the model.
toLowerCase(filename) ==
    [k \in DOMAIN filename |->
        CASE filename[k] = ".PNG" -> ".png"
          [] filename[k] = ".MOV" -> ".mov"
          [] OTHER -> filename[k]]

\* String.prototype.endsWith with a suffix that is a whole extension.
endsWith(filename, suffix) ==
    /\ Len(filename) > 0
    /\ filename[Len(filename)] = suffix

\* String.prototype.startsWith on token sequences.
startsWith(s, prefix) ==
    /\ Len(prefix) <= Len(s)
    /\ SubSeq(s, 1, Len(prefix)) = prefix

mediaExtensions == {".jpg", ".jpeg", ".png", ".gif", ".webp",
                    ".mp4", ".mov", ".avi", ".mkv", ".webm"}
videoExtensions == {".mp4", ".mov", ".avi", ".mkv", ".webm"}
mediaContentTypes == {<<"image", "/">>, <<"video", "/">>}
videoContentTypes == {<<"video", "/">>}

\* isMediaFile taking any declared content type for a media type.
isMediaFile_AnyContentType(filename, contentType) ==
    \/ \E ext \in mediaExtensions : endsWith(toLowerCase(filename), ext)
    \/ contentType # <<>>

\* A contentType that is undefined or "" is falsy: kept as <<>>.
isMediaFile(filename, contentType) ==
    LET hasMediaExtension ==
            \E ext \in mediaExtensions : endsWith(toLowerCase(filename), ext)
        hasMediaContentType ==
            IF contentType # <<>>
            THEN \E type \in mediaContentTypes : startsWith(contentType, type)
            ELSE FALSE
    IN hasMediaExtension \/ hasMediaContentType

isVideoFile(filename, contentType) ==
    LET hasVideoExtension ==
            \E ext \in videoExtensions : endsWith(toLowerCase(filename), ext)
        hasVideoContentType ==
            IF contentType # <<>>
            THEN \E type \in videoContentTypes : startsWith(contentType, type)
            ELSE FALSE
    IN hasVideoExtension \/ hasVideoContentType

\* ---------------------------------------- FileUtils (character by character)
\* Strings are sequences of characters.
Letters == {"a", "T", "Z", "u", "n", "k", "o", "w"}
Digits == {"0", "1", "2", "4"}
Characters == Letters \cup Digits \cup {".", "_", "-", ":", " ", "$"}
\* What attachment filenames are made of: no path separator.
FileChars == {"a", "1", ".", "-", " "}
UserNames == {<<"a">>, <<"a", " ">>, <<"$", "1">>, <<"_", "-">>}

Strings(chars, n) == UNION {[1 .. k -> chars] : k \in 0 .. n}

\* String.prototype.replace with a global character class: every
\* character of matched becomes by.
replace(s, matched, by) ==
    [k \in 1 .. Len(s) |-> IF s[k] \in matched THEN by ELSE s[k]]

\* new Date(timestamp).toISOString() for the timestamp of the model.
toISOString ==
    <<"2", "0", "2", "4", "-", "0", "1", "-", "0", "2", "T", "1", "2", ":",
      "0", "0", ":", "0", "1", ".", "0", "0", "0", "Z">>

\* path.extname of a name without separators: from the last dot on, and
\* empty when there is no dot, when the only dot comes first, or for "..".
extname(s) ==
    LET dots == {k \in 1 .. Len(s) : s[k] = "."}
        last == CHOOSE k \in dots : \A j \in dots : j <= k
    IN IF dots = {} THEN <<>>
       ELSE IF last = 1 \/ s = <<".", ".">> THEN <<>>
       ELSE SubSeq(s, last, Len(s))

\* path.basename(s, ext) of a name without separators: ext is cut off when
\* s ends with it; nothing is left when s is ext.
basename(s, ext) ==
    IF ext = <<>> \/ Len(ext) > Len(s) THEN s
    ELSE IF ext = s THEN <<>>
    ELSE IF SubSeq(s, Len(s) - Len(ext) + 1, Len(s)) = ext
         THEN SubSeq(s, 1, Len(s) - Len(ext))
    ELSE s

\* FileUtils.generateSafeFilename on strings.
generateSafeFilenameText(filename, username, timestamp) ==
    LET dateStr == replace(SubSeq(timestamp, 1, 19), {":", "."}, "-")
        safeUsername == replace(username, Characters \ (Letters \cup Digits),
                                "_")
        extension == IF extname(filename) # <<>> THEN extname(filename)
                     ELSE <<".", "u", "n", "k", "n", "o", "w", "n">>
        baseName == replace(basename(filename, extension),
                            Characters \ (Letters \cup Digits
                                             \cup {".", "_", "-"}),
                            "_")
    IN dateStr \o <<"_">> \o safeUsername \o <<"_">> \o baseName
          \o extension

\* The destination of an attachment. The timestamp (to the second) and the
\* author are the same for every message of the model, and base names need
\* no replacement, so two attachments collide exactly when their base name
\* and extension are the same. path.extname(...) || '.unknown'.
generateSafeFilename(attachment) ==
    LET extension == IF attachment.filename[2] # ""
                     THEN attachment.filename[2] ELSE ".unknown"
        baseName == attachment.filename[1]
    IN <<baseName, extension>>

\* ---------------------------------------------------------- Config (pure)
\* isFileSizeValid applying the image limits to every attachment.
isFileSizeValid_ImageLimits(cfg, fileSize, isVideo) ==
    fileSize >= cfg.minImageSize /\ fileSize <= cfg.maxImageSize

isFileSizeValid(cfg, fileSize, isVideo) ==
    IF isVideo
    THEN fileSize >= cfg.minVideoSize /\ fileSize <= cfg.maxVideoSize
    ELSE fileSize >= cfg.minImageSize /\ fileSize <= cfg.maxImageSize

\* isMonitoredChannel accepting every channel.
isMonitoredChannel_Any(cfg, channelId) == TRUE

isMonitoredChannel(cfg, channelId) == channelId \in cfg.channelIds

\* Config.isUserBlacklisted
isUserBlacklisted(cfg, userId) == userId \in cfg.blacklistedUserIds

\* ------------------------------------------ DuplicateDetectionService (pure)
\* MD5 of a file's content: one digest per content, none shared.
calculateFileHash(content) == <<"md5", content>>

RECURSIVE Without(_, _)
Without(s, x) ==
    IF s = <<>> THEN <<>>
    ELSE IF Head(s) = x THEN Without(Tail(s), x)
    ELSE <<Head(s)>> \o Without(Tail(s), x)

\* Map.prototype.has
Has(cache, hash) == \E k \in 1 .. Len(cache) : cache[k] = hash

\* addToCache without the eviction.
addToCache_NoEviction(cache, hash, maxCacheSize) ==
    Append(IF Has(cache, hash) THEN Without(cache, hash) ELSE cache, hash)

\* addToCache leaving a digest that is present where it is.
addToCache_NoRefresh(cache, hash, maxCacheSize) ==
    IF Has(cache, hash) THEN cache
    ELSE IF Len(cache) + 1 > maxCacheSize
         THEN Tail(Append(cache, hash)) ELSE Append(cache, hash)

\* Map.delete(hash) when present, Map.set(hash, true), then one eviction of
\* the first key when the size exceeds maxCacheSize.
addToCache(cache, hash, maxCacheSize) ==
    LET removed == IF Has(cache, hash) THEN Without(cache, hash) ELSE cache
        added == Append(removed, hash)
    IN IF Len(added) > maxCacheSize THEN Tail(added) ELSE added

\* findFirst finding no row.
findFirst_NotFound(rows, hash) == FALSE

\* A row of the store carries the digest.
findFirst(rows, hash) == \E f \in DOMAIN rows : rows[f] = hash

\* An upsert that deletes the row it collides with.
upsert_DeleteOnCollision(rows, filename, hash) ==
    [rows EXCEPT ![filename] = IF @ = NoHash THEN hash ELSE NoHash]

\* INSERT ... ON CONFLICT (filename) DO UPDATE
upsert(rows, filename, hash) == [rows EXCEPT ![filename] = hash]

\* DuplicateDetectionService.isActive
isActive(enabled) == enabled

\* removeFileSafely leaving the file where it is.
removeFileSafely_Kept(fs, p) == fs

\* FileUtils.removeFileSafely: the unlink is taken to complete at once.
removeFileSafely(fs, p) == [fs EXCEPT ![p] = NULL]

\* ------------------------------------------------------------------ state
VARIABLES
    config,            \* Config: read-only after startup
    env,               \* what the remote side may send, how often I/O may fail
    phase,             \* "constructed" until DiscordMediaSaver.init has run
    dbUp,              \* the database accepted the connection of the last init
    restarts,          \* process restarts so far
    atRestart,         \* the store's rows and the writers per path at the
                       \* last restart
    cleanedUp,         \* DiscordClient.cleanup has been called
    atCleanup,         \* the downloads in progress when it was called
    discordStatus,     \* HealthCheckServer.discordStatus
    now,               \* Date.now(), in milliseconds
    response,          \* the last answer to GET /health
    named,             \* a filename and an author, and the name generated
                       \* for them
    ws,                \* DiscordClient.ws: "none", or the readyState of the
                       \* socket: "connecting", "open", "closing", "closed"
    sockets,           \* sockets created by connect and not closed yet
    heartbeatInterval, \* DiscordClient.heartbeatInterval is a live timer
    intervals,         \* heartbeat timers that were set and not cleared
    sessionId,         \* DiscordClient.sessionId
    sequenceNumber,    \* DiscordClient.sequenceNumber, NoSeq for null
    reconnectTimers,   \* pending setTimeout(() => this.connect())
    identifyTimers,    \* pending setTimeout(() => this.identify())
    sent,              \* frames sent on the current socket
    gotHello,          \* a hello frame was received on the current socket
    isEnabled,         \* DuplicateDetectionService.isEnabled
    prisma,            \* DuplicateDetectionService.prisma is not null
    recentHashes,      \* keys of DuplicateDetectionService.recentHashes,
                       \* oldest first
    store,             \* table file_hashes: filename -> hash, NoHash: no row
    files,             \* the save directory: path -> content, NULL: no file
    inbox,             \* the MESSAGE_CREATE events received, in order
    tasks,             \* one processAttachments call per event: position
                       \* and locals
    out,               \* per attachment: how its handling ended, and what
                       \* was already finished when its download started
    writers,           \* per path: the downloads that opened a write stream
    touched,           \* digests in the order of their last insertion or
                       \* cache hit
    lastAdd,           \* the last addToCache call: the cache before, the hash
    faults             \* injected I/O failures so far

health == <<discordStatus, now, response>>
process == <<config, env, phase, dbUp, restarts, atRestart, cleanedUp,
             atCleanup, health, named>>
heartbeat == <<heartbeatInterval, intervals>>
socket == <<ws, sockets>>
gateway == <<socket, heartbeat, sessionId, sequenceNumber,
             reconnectTimers, identifyTimers, sent, gotHello>>
dedup == <<isEnabled, prisma, recentHashes, store, touched, lastAdd>>
downloads == <<files, inbox, tasks, out, writers, faults>>

vars == <<process, gateway, dedup, downloads>>

Tasks == 1 .. MaxMessages

\* No heartbeat time: null.
NoTime == 0
\* The instants of the clock: a first one, and those 119999, 120000 and
\* 120001 ms after it.
Times == {1, 120000, 120001, 120002}
\* No name was generated.
NoName == [filename |-> <<>>, username |-> <<>>, result |-> <<>>]
\* No request was answered yet.
NoResponse == [http |-> 0]
\* HealthCheckServer constructor
NoStatus == [connected |-> FALSE, lastHeartbeat |-> NoTime,
             reconnectCount |-> 0]

Attachment(name, ext, contentType, size, url) ==
    [filename |-> <<name, ext>>, content_type |-> contentType,
     size |-> size, url |-> url]

Idle == [idx |-> 0, pc |-> "idle", fileHash |-> NoHash, trips |-> 0]
Untouched == [res |-> "pending", active |-> FALSE, clean |-> TRUE,
              prior |-> {}, epoch |-> 0, via |-> NULL, rows |-> 0,
              trips |-> 0]
NoAdd == [cache |-> <<>>, hash |-> NoHash]

Terminal == {"not_media", "bad_size", "exists", "failed", "duplicate", "saved"}

\* The attachments whose handling has ended, by <<task, attachment index>>.
Finished(o) ==
    UNION {{<<t, i>> : i \in {k \in 1 .. Len(o[t]) : o[t][k].res \in Terminal}}
           : t \in Tasks}

RowCount(rows) == Cardinality({f \in DOMAIN rows : rows[f] # NoHash})

PathOf(t, i) == generateSafeFilename(inbox[t].attachments[i])

\* The order of last use: digest h becomes the most recently used.
Touch(order, h) == Append(Without(order, h), h)

\* One more injected failure is allowed.
MayFail == faults < env.maxFaults

\* ------------------------------------------------ MediaProcessor (helpers)
\* A verdict that never looks for an existing file.
Verdict_Overwrites(att, fs) ==
    IF ~isMediaFile(att.filename, att.content_type) THEN "not_media"
    ELSE IF ~isFileSizeValid(config, att.size,
                             isVideoFile(att.filename, att.content_type))
         THEN "bad_size"
    ELSE "download"

\* What processAttachments and downloadAttachment decide for one attachment
\* before any transfer starts, given the files on disk.
Verdict(att, fs) ==
    IF ~isMediaFile(att.filename, att.content_type) THEN "not_media"
    ELSE IF ~isFileSizeValid(config, att.size,
                             isVideoFile(att.filename, att.content_type))
         THEN "bad_size"
    ELSE IF fs[generateSafeFilename(att)] # NULL THEN "exists"
    ELSE "download"

RECURSIVE Scan(_, _, _)
Scan(atts, i, fs) ==
    IF i > Len(atts) THEN i
    ELSE IF Verdict(atts[i], fs) = "download" THEN i
    ELSE Scan(atts, i + 1, fs)

\* The for-loop of processAttachments from attachment i on, continued in
\* the callback of a download that ended or in a microtask, and run until
\* the next download: the awaits of attachments that are skipped on the way
\* are microtasks that no other callback comes between; the first
\* attachment to download gets its write stream and its request
\* (createWriteStream, https.get) and the loop waits for it.
\* o is out with the download that just ended already recorded, fs the files
\* and rows the store as that download left them.
Continue(t, atts, i, o, fs, rows) ==
    LET j == Scan(atts, i, fs)
        skipped == [k \in 1 .. Len(atts) |->
                      IF k >= i /\ k < j
                      THEN [o[t][k] EXCEPT !.res = Verdict(atts[k], fs)]
                      ELSE o[t][k]]
        o2 == [o EXCEPT ![t] = skipped]
    IN IF j > Len(atts)
       THEN /\ tasks' = [tasks EXCEPT ![t] =
                            [idx |-> j, pc |-> "done", fileHash |-> NoHash,
                             trips |-> 0]]
            /\ out' = o2
            /\ writers' = writers
       ELSE /\ tasks' = [tasks EXCEPT ![t] =
                            [idx |-> j, pc |-> "open", fileHash |-> NoHash,
                             trips |-> 0]]
            /\ out' = [o2 EXCEPT ![t][j] =
                          [res |-> "running", active |-> FALSE,
                           clean |-> TRUE, prior |-> Finished(o2),
                           epoch |-> restarts, via |-> NULL,
                           rows |-> RowCount(rows), trips |-> 0]]
            /\ writers' = [writers EXCEPT
                              ![generateSafeFilename(atts[j])] = @ + 1]

\* The current download of task t ends with result res; the loop goes on.
\* how is "ok", "error" (an I/O call of the download failed), or for a
\* duplicate where it was found: "cache" or "store".
Finish(t, res, how, fs, rows) ==
    LET i == tasks[t].idx
        o == [out EXCEPT ![t][i].res = res,
                         ![t][i].clean = @ /\ how # "error",
                         ![t][i].via = how,
                         ![t][i].trips = tasks[t].trips]
    IN Continue(t, inbox[t].attachments, i + 1, o, fs, rows)

\* The first attachment from i on that reaches downloadAttachment: one that
\* is media of a valid size.
RECURSIVE ScanAwait(_, _, _)
ScanAwait(atts, i, fs) ==
    IF i > Len(atts) THEN i
    ELSE IF Verdict(atts[i], fs) \in {"download", "exists"} THEN i
    ELSE ScanAwait(atts, i + 1, fs)

\* A handler that looks at no attachment before its first await.
Begin_Deferred(t, atts, o) ==
    /\ tasks' = [tasks EXCEPT ![t] = [Idle EXCEPT !.pc = "skipped"]]
    /\ out' = o
    /\ writers' = writers

\* processAttachments as called by handleDispatch, run until its first
\* await. When the first attachment that reaches downloadAttachment has its
\* file already, downloadAttachment returns at once and the loop goes on in
\* a microtask: frames that the socket delivers in the same turn are
\* handled before it. o is out with the attachments of the message added.
Begin(t, atts, o) ==
    LET j == ScanAwait(atts, 1, files)
    IN IF j <= Len(atts) /\ Verdict(atts[j], files) = "exists"
       THEN /\ tasks' = [tasks EXCEPT ![t] =
                            [idx |-> j, pc |-> "skipped",
                             fileHash |-> NoHash, trips |-> 0]]
            /\ out' = [o EXCEPT ![t] =
                          [k \in 1 .. Len(atts) |->
                             IF k <= j
                             THEN [o[t][k] EXCEPT
                                      !.res = Verdict(atts[k], files)]
                             ELSE o[t][k]]]
            /\ writers' = writers
       ELSE Continue(t, atts, 1, o, files, store)

\* No continuation of processAttachments waits in the microtask queue:
\* timers, I/O callbacks and signals run only then.
Quiet == \A t \in Tasks : tasks[t].pc # "skipped"

\* addToCache as called by isDuplicate and recordFile.
Insert(fileHash) ==
    /\ recentHashes' = addToCache(recentHashes, fileHash, config.maxCacheSize)
    /\ touched' = Touch(touched, fileHash)
    /\ lastAdd' = [cache |-> recentHashes, hash |-> fileHash]

\* ------------------------------------------------------------- the process
\* DiscordClient.connect: a new socket replaces this.ws.
connect ==
    /\ ws' = "connecting"
    /\ sockets' = sockets + 1
    /\ sent' = <<>>
    /\ gotHello' = FALSE

\* The live timers after clearInterval(this.heartbeatInterval): the timer
\* held by the field is cleared when it is live.
clearInterval == IF heartbeatInterval THEN intervals - 1 ELSE intervals

\* init enabling the service whatever the configuration and the database.
init_AlwaysEnabled(connects) ==
    /\ phase = "constructed"
    /\ phase' = "running"
    /\ dbUp' = connects
    /\ prisma' = TRUE
    /\ isEnabled' = TRUE
    /\ connect
    /\ UNCHANGED <<config, env, named,
                   restarts, atRestart, cleanedUp, atCleanup,
                   health,
                   heartbeat, sessionId, sequenceNumber,
                   reconnectTimers, identifyTimers, recentHashes, store,
                   touched, lastAdd, downloads>>

\* DiscordMediaSaver.init: DuplicateDetectionService.init, then
\* DiscordClient.connect. The service is enabled only when a database URL
\* is configured and $connect succeeds.
init(connects) ==
    /\ phase = "constructed"
    /\ phase' = "running"
    /\ dbUp' = connects
    /\ IF config.databaseUrl /\ connects
       THEN prisma' = TRUE /\ isEnabled' = TRUE
       ELSE prisma' = FALSE /\ isEnabled' = FALSE
    /\ connect
    /\ UNCHANGED <<config, env, named,
                   restarts, atRestart, cleanedUp, atCleanup,
                   health,
                   heartbeat, sessionId, sequenceNumber,
                   reconnectTimers, identifyTimers, recentHashes, store,
                   touched, lastAdd, downloads>>

\* The process ends and is started again: memory, timers and the socket are
\* lost, the save directory and the store are kept.
Restart ==
    /\ phase = "running"
    /\ restarts < env.maxRestarts
    /\ restarts' = restarts + 1
    /\ phase' = "constructed"
    /\ ws' = "none"
    /\ sockets' = 0
    /\ heartbeatInterval' = FALSE
    /\ intervals' = 0
    /\ sessionId' = NULL
    /\ sequenceNumber' = NoSeq
    /\ reconnectTimers' = 0
    /\ identifyTimers' = 0
    /\ sent' = <<>>
    /\ gotHello' = FALSE
    /\ cleanedUp' = FALSE
    /\ atCleanup' = {}
    /\ discordStatus' = NoStatus
    /\ UNCHANGED <<now, response>>
    /\ isEnabled' = FALSE
    /\ prisma' = FALSE
    /\ recentHashes' = <<>>
    /\ touched' = <<>>
    /\ lastAdd' = NoAdd
    /\ tasks' = [t \in Tasks |->
                   IF tasks[t].pc \in {"idle", "done"} THEN tasks[t]
                   ELSE [tasks[t] EXCEPT !.pc = "killed"]]
    /\ out' = [t \in Tasks |->
                 [k \in 1 .. Len(out[t]) |->
                    IF out[t][k].res = "running"
                    THEN [out[t][k] EXCEPT !.res = "killed"]
                    ELSE out[t][k]]]
    /\ atRestart' = [rows |-> store, writers |-> writers]
    /\ UNCHANGED <<config, env, named, dbUp, store, files, inbox, writers,
                   faults>>

\* The processAttachments calls that wait for a download to end.
InProgress == {t \in Tasks : tasks[t].pc \notin {"idle", "done", "killed"}}

\* DiscordClient.cleanup: clearInterval, then this.ws.close(), which starts
\* the closing handshake of a socket that is connecting or open.
cleanup ==
    /\ intervals' = clearInterval
    /\ heartbeatInterval' = FALSE
    /\ ws' = IF ws \in {"connecting", "open"} THEN "closing" ELSE ws
    /\ sockets' = sockets
    /\ cleanedUp' = TRUE

\* A SIGINT or SIGTERM handler of main calls DiscordMediaSaver.cleanup,
\* which runs DiscordClient.cleanup and then awaits the health server and
\* the duplicate detection service: the callbacks of the process go on
\* running until these settle. The signal comes once init has run.
Shutdown ==
    /\ Quiet
    /\ phase = "running"
    /\ ~cleanedUp
    /\ cleanup
    /\ atCleanup' = {<<t, tasks[t].idx>> : t \in InProgress}
    /\ UNCHANGED <<config, env, named, phase, dbUp, restarts, atRestart, health,
                   sessionId,
                   sequenceNumber, reconnectTimers, identifyTimers, sent,
                   gotHello, dedup, downloads>>

\* process.exit after DiscordMediaSaver.cleanup has settled: memory, timers
\* and the socket are lost.
Exit ==
    /\ Quiet
    /\ cleanedUp
    /\ phase = "running"
    /\ phase' = "exited"
    /\ ws' = "none"
    /\ sockets' = 0
    /\ heartbeatInterval' = FALSE
    /\ intervals' = 0
    /\ sessionId' = NULL
    /\ sequenceNumber' = NoSeq
    /\ reconnectTimers' = 0
    /\ identifyTimers' = 0
    /\ sent' = <<>>
    /\ gotHello' = FALSE
    /\ isEnabled' = FALSE
    /\ prisma' = FALSE
    /\ recentHashes' = <<>>
    /\ tasks' = [t \in Tasks |->
                   IF tasks[t].pc \in {"idle", "done"} THEN tasks[t]
                   ELSE [tasks[t] EXCEPT !.pc = "killed"]]
    /\ out' = [t \in Tasks |->
                 [k \in 1 .. Len(out[t]) |->
                    IF out[t][k].res = "running"
                    THEN [out[t][k] EXCEPT !.res = "killed"]
                    ELSE out[t][k]]]
    /\ discordStatus' = NoStatus
    /\ UNCHANGED <<config, env, named, dbUp, restarts, atRestart, cleanedUp,
                   atCleanup, now, response, store,
                   touched, lastAdd, files, inbox, writers, faults>>

\* ------------------------------------------------------------ DiscordClient
\* WebSocket.send on this.ws: the frame leaves only on an open socket. The
\* log keeps the first frames of a socket.
Send(frame) ==
    IF ws = "open" /\ Len(sent) < env.maxSent
    THEN Append(sent, frame) ELSE sent

\* startHeartbeat that sets the new timer and leaves the previous one.
startHeartbeat_Stacked ==
    /\ intervals' = intervals + 1
    /\ heartbeatInterval' = TRUE

\* startHeartbeat: the previous timer is cleared, a new one is set.
startHeartbeat ==
    /\ intervals' = clearInterval + 1
    /\ heartbeatInterval' = TRUE

\* sendHeartbeat that never carries a sequence number.
sendHeartbeat_Null == sent' = Send([op |-> 1, d |-> NoSeq])

sendHeartbeat == sent' = Send([op |-> 1, d |-> sequenceNumber])

identify == sent' = Send([op |-> 2, d |-> NoSeq])

\* Frames that are read only when no download is in progress.
Receiving_Blocked ==
    /\ phase = "running"
    /\ ws \in {"open", "closing"}
    /\ \A t \in Tasks : tasks[t].pc \in {"idle", "done"}

\* A frame can arrive while the socket is open, or closing and not yet closed.
Receiving ==
    /\ phase = "running"
    /\ ws \in {"open", "closing"}

\* ws.on('open')
SocketOpen ==
    /\ Quiet
    /\ ws = "connecting"
    /\ ws' = "open"
    /\ sockets' = sockets
    /\ UNCHANGED <<process, gotHello, heartbeat, sessionId,
                   sequenceNumber,
                   reconnectTimers, identifyTimers, sent, dedup,
                   downloads>>

\* A close handler that schedules no reconnect.
SocketClose_NoReconnect ==
    /\ Quiet
    /\ phase = "running"
    /\ ws \in {"connecting", "open", "closing"}
    /\ ws' = "closed"
    /\ sockets' = sockets - 1
    /\ UNCHANGED <<process, gotHello, heartbeat, sessionId,
                   sequenceNumber, reconnectTimers, identifyTimers, sent,
                   dedup, downloads>>

\* ws.on('close'): the connection failed, was closed by the server, or the
\* close the client asked for completed. A reconnect is scheduled.
SocketClose ==
    /\ Quiet
    /\ phase = "running"
    /\ ws \in {"connecting", "open", "closing"}
    /\ ws' = "closed"
    /\ sockets' = sockets - 1
    /\ reconnectTimers' = reconnectTimers + 1
    /\ UNCHANGED <<process, gotHello, heartbeat, sessionId,
                   sequenceNumber,
                   identifyTimers, sent, dedup, downloads>>

\* A reconnect timer that stays set after it has fired.
ReconnectTimer_Repeating ==
    /\ Quiet
    /\ reconnectTimers > 0
    /\ identifyTimers = 0
    /\ reconnectTimers' = reconnectTimers
    /\ connect
    /\ UNCHANGED <<process, heartbeat, sessionId, sequenceNumber,
                   identifyTimers, dedup, downloads>>

\* The reconnect timer (5000 ms) fires. An identify timer (2000 ms) set
\* before the close that scheduled this reconnect has fired by then.
ReconnectTimer ==
    /\ Quiet
    /\ reconnectTimers > 0
    /\ identifyTimers = 0
    /\ reconnectTimers' = reconnectTimers - 1
    /\ connect
    /\ UNCHANGED <<process, heartbeat, sessionId, sequenceNumber,
                   identifyTimers, dedup, downloads>>

\* handleMessage, op Hello: startHeartbeat replaces the timer, identify().
Hello ==
    /\ Receiving
    /\ startHeartbeat
    /\ gotHello' = TRUE
    /\ identify
    /\ UNCHANGED <<process, socket, sessionId, sequenceNumber, reconnectTimers,
                   identifyTimers, dedup, downloads>>

\* The heartbeat interval elapses.
HeartbeatTick ==
    /\ Quiet
    /\ heartbeatInterval
    /\ sendHeartbeat
    /\ UNCHANGED <<process, gotHello, socket, heartbeat, sessionId,
                   sequenceNumber,
                   reconnectTimers, identifyTimers, dedup, downloads>>

\* handleMessage, op HeartbeatAck
HeartbeatAck ==
    /\ Receiving
    /\ UNCHANGED <<process, gotHello, socket, heartbeat, sessionId,
                   sequenceNumber,
                   reconnectTimers, identifyTimers, sent, dedup, downloads>>

\* handleMessage, op Heartbeat: the server asks for a heartbeat.
HeartbeatRequest ==
    /\ Receiving
    /\ sendHeartbeat
    /\ UNCHANGED <<process, gotHello, socket, heartbeat, sessionId,
                   sequenceNumber,
                   reconnectTimers, identifyTimers, dedup, downloads>>

\* handleMessage, op Reconnect: this.ws?.close() starts the closing handshake.
Reconnect ==
    /\ Receiving
    /\ ws' = "closing"
    /\ sockets' = sockets
    /\ UNCHANGED <<process, gotHello, heartbeat, sessionId,
                   sequenceNumber,
                   reconnectTimers, identifyTimers, sent, dedup, downloads>>

\* An invalid session handled by identifying at once, the session id kept.
InvalidSession_AtOnce ==
    /\ Receiving
    /\ identifyTimers < env.maxTimers
    /\ identify
    /\ UNCHANGED <<process, gotHello, socket, heartbeat, sessionId,
                   sequenceNumber, reconnectTimers, identifyTimers, dedup,
                   downloads>>

\* handleMessage, op InvalidSession
InvalidSession ==
    /\ Receiving
    /\ identifyTimers < env.maxTimers
    /\ sessionId' = NULL
    /\ identifyTimers' = identifyTimers + 1
    /\ UNCHANGED <<process, gotHello, socket, heartbeat, sequenceNumber,
                   reconnectTimers, sent, dedup, downloads>>

\* The identify timer fires.
IdentifyTimer ==
    /\ Quiet
    /\ identifyTimers > 0
    /\ identifyTimers' = identifyTimers - 1
    /\ identify
    /\ UNCHANGED <<process, gotHello, socket, heartbeat, sessionId,
                   sequenceNumber,
                   reconnectTimers, dedup, downloads>>

\* handleDispatch, READY: the sequence number and the session id are kept.
Ready(s) ==
    /\ Receiving
    /\ sequenceNumber' = s
    /\ sessionId' = "session"
    /\ UNCHANGED <<process, gotHello, socket, heartbeat, reconnectTimers,
                   identifyTimers, sent, dedup, downloads>>

\* handleDispatch, RESUMED
Resumed(s) ==
    /\ Receiving
    /\ sequenceNumber' = s
    /\ UNCHANGED <<process, gotHello, socket, heartbeat, sessionId,
                   reconnectTimers,
                   identifyTimers, sent, dedup, downloads>>

\* A handler that puts the attachments of a message behind the downloads
\* of the messages before it.
MessageCreate_Queued(channel_id, author, attachments, s) ==
    LET t == Len(inbox) + 1
        fresh == [out EXCEPT ![t] =
                     [k \in 1 .. Len(attachments) |-> Untouched]]
    IN /\ Receiving
       /\ Len(inbox) < env.maxMessages
       /\ sequenceNumber' = s
       /\ inbox' = Append(inbox, [channel_id |-> channel_id,
                                  author |-> author,
                                  attachments |-> attachments])
       /\ IF isMonitoredChannel(config, channel_id) /\ Len(attachments) > 0
          THEN IF \E u \in Tasks : tasks[u].pc \notin {"idle", "done"}
               THEN out' = fresh /\ UNCHANGED <<tasks, writers>>
               ELSE Begin(t, attachments, fresh)
          ELSE UNCHANGED <<tasks, out, writers>>
       /\ UNCHANGED <<process, gotHello, socket, heartbeat, sessionId,
                      reconnectTimers, identifyTimers, sent, dedup,
                      files, faults>>

\* handleDispatch, MESSAGE_CREATE: processAttachments is called without
\* await for a monitored channel with attachments, and runs up to its first
\* await.
MessageCreate(channel_id, author, attachments, s) ==
    LET t == Len(inbox) + 1
    IN /\ Receiving
       /\ Len(inbox) < env.maxMessages
       /\ sequenceNumber' = s
       /\ inbox' = Append(inbox, [channel_id |-> channel_id,
                                  author |-> author,
                                  attachments |-> attachments])
       /\ IF isMonitoredChannel(config, channel_id) /\ Len(attachments) > 0
          THEN Begin(t, attachments,
                     [out EXCEPT ![t] =
                         [k \in 1 .. Len(attachments) |-> Untouched]])
          ELSE UNCHANGED <<tasks, out, writers>>
       /\ UNCHANGED <<process, gotHello, socket, heartbeat, sessionId,
                      reconnectTimers, identifyTimers, sent, dedup,
                      files, faults>>

\* ------------------------------------------------ MediaProcessor (steps)
\* The write stream of downloadFile opens its file: created, or truncated.
Open(t) ==
    /\ Quiet
    /\ tasks[t].pc = "open"
    /\ files' = [files EXCEPT ![PathOf(t, tasks[t].idx)] = PARTIAL]
    /\ tasks' = [tasks EXCEPT ![t].pc = "transfer"]
    /\ UNCHANGED <<process, gateway, dedup, inbox, out, writers, faults>>

\* A failed transfer that ends processAttachments: the attachments after it
\* are never looked at.
TransferDone_Aborts(t, result) ==
    LET i == tasks[t].idx
        p == PathOf(t, i)
        written == IF files[p] = NULL THEN files
                   ELSE [files EXCEPT ![p] = inbox[t].attachments[i].url]
    IN /\ Quiet
       /\ tasks[t].pc = "transfer"
       /\ result \in {"finish", "status", "error"}
       /\ result # "finish" => MayFail
       /\ faults' = IF result = "finish" THEN faults ELSE faults + 1
       /\ CASE result = "finish" /\ isActive(isEnabled) /\ isEnabled ->
                 /\ files' = written
                 /\ tasks' = [tasks EXCEPT ![t].pc = "hash"]
                 /\ out' = [out EXCEPT ![t][i].active = TRUE]
                 /\ writers' = writers
            [] result = "finish" /\ ~(isActive(isEnabled) /\ isEnabled) ->
                 /\ files' = written
                 /\ Finish(t, "saved", "ok", written, store)
            [] result # "finish" ->
                 /\ files' = IF result = "status" THEN files
                             ELSE removeFileSafely(files, p)
                 /\ tasks' = [tasks EXCEPT ![t].pc = "done"]
                 /\ out' = [out EXCEPT ![t][i].res = "failed",
                                       ![t][i].clean = FALSE,
                                       ![t][i].via = "error"]
                 /\ writers' = writers
       /\ UNCHANGED <<process, gateway, dedup, inbox>>

\* The transfer ends: 'finish' after a 200 response, a response that is not
\* 200 (rejected, the file stays), or a request or stream error (the file
\* is removed, rejected). After 'finish', isActive() decides whether
\* isDuplicate is called; isDuplicate answers false at once when the
\* service is not enabled, and starts by hashing the file otherwise.
TransferDone(t, result) ==
    LET i == tasks[t].idx
        p == PathOf(t, i)
        written == IF files[p] = NULL THEN files
                   ELSE [files EXCEPT ![p] = inbox[t].attachments[i].url]
    IN /\ Quiet
       /\ tasks[t].pc = "transfer"
       /\ result \in {"finish", "status", "error"}
       /\ result # "finish" => MayFail
       /\ faults' = IF result = "finish" THEN faults ELSE faults + 1
       /\ CASE result = "finish" /\ isActive(isEnabled) /\ isEnabled ->
                 /\ files' = written
                 /\ tasks' = [tasks EXCEPT ![t].pc = "hash"]
                 /\ out' = [out EXCEPT ![t][i].active = TRUE]
                 /\ writers' = writers
            [] result = "finish" /\ ~(isActive(isEnabled) /\ isEnabled) ->
                 /\ files' = written
                 /\ Finish(t, "saved", "ok", written, store)
            [] result = "status" ->
                 /\ files' = files
                 /\ Finish(t, "failed", "error", files, store)
            [] result = "error" ->
                 /\ files' = removeFileSafely(files, p)
                 /\ Finish(t, "failed", "error", removeFileSafely(files, p),
                           store)
       /\ UNCHANGED <<process, gateway, dedup, inbox>>

\* The microtask that continues processAttachments after an attachment
\* whose file existed already: the loop goes on with the next attachment.
Resume(t) ==
    /\ tasks[t].pc = "skipped"
    /\ Continue(t, inbox[t].attachments, tasks[t].idx + 1, out, files, store)
    /\ UNCHANGED <<process, gateway, dedup, files, inbox, faults>>

\* ------------------------------------- DuplicateDetectionService (steps)
\* calculateFileHash settles. A read error is caught by isDuplicate, which
\* answers false. Otherwise the cache is asked: on a hit isDuplicate
\* answers true and downloadAttachment removes the file; on a miss the
\* store is queried.
HashDone(t, ok) ==
    LET i == tasks[t].idx
        p == PathOf(t, i)
        fileHash == calculateFileHash(files[p])
    IN /\ Quiet
       /\ tasks[t].pc = "hash"
       /\ files[p] = NULL => ~ok
       /\ (~ok /\ files[p] # NULL) => MayFail
       /\ faults' = IF ~ok /\ files[p] # NULL THEN faults + 1 ELSE faults
       /\ CASE ~ok ->
                 /\ Finish(t, "saved", "error", files, store)
                 /\ UNCHANGED <<files, touched>>
            [] ok /\ Has(recentHashes, fileHash) ->
                 /\ files' = removeFileSafely(files, p)
                 /\ touched' = Touch(touched, fileHash)
                 /\ Finish(t, "duplicate", "cache",
                           removeFileSafely(files, p), store)
            [] ok /\ ~Has(recentHashes, fileHash) ->
                 /\ tasks' = [tasks EXCEPT ![t].pc =
                                 IF prisma THEN "lookup" ELSE "stat",
                              ![t].fileHash = fileHash,
                              ![t].trips = IF prisma THEN @ + 1 ELSE @]
                 /\ UNCHANGED <<files, touched, out, writers>>
       /\ UNCHANGED <<process, gateway, isEnabled, prisma, recentHashes,
                      store, lastAdd, inbox>>

\* A row found that is not put into the cache.
LookupDone_Forgets(t, ok) ==
    LET i == tasks[t].idx
        p == PathOf(t, i)
        fileHash == tasks[t].fileHash
    IN /\ Quiet
       /\ tasks[t].pc = "lookup"
       /\ ~ok => MayFail
       /\ faults' = IF ok THEN faults ELSE faults + 1
       /\ CASE ~ok ->
                 /\ Finish(t, "saved", "error", files, store)
                 /\ UNCHANGED <<files, recentHashes, touched, lastAdd>>
            [] ok /\ findFirst(store, fileHash) ->
                 /\ UNCHANGED <<recentHashes, touched, lastAdd>>
                 /\ files' = removeFileSafely(files, p)
                 /\ Finish(t, "duplicate", "store",
                           removeFileSafely(files, p), store)
            [] ok /\ ~findFirst(store, fileHash) ->
                 /\ tasks' = [tasks EXCEPT ![t].pc = "stat"]
                 /\ UNCHANGED <<files, recentHashes, touched, lastAdd, out,
                                writers>>
       /\ UNCHANGED <<process, gateway, isEnabled, prisma, store, inbox>>

\* A lookup error that isDuplicate lets through: downloadAttachment's catch
\* reports the attachment as failed.
LookupDone_Propagates(t, ok) ==
    LET i == tasks[t].idx
        p == PathOf(t, i)
        fileHash == tasks[t].fileHash
    IN /\ Quiet
       /\ tasks[t].pc = "lookup"
       /\ ~ok => MayFail
       /\ faults' = IF ok THEN faults ELSE faults + 1
       /\ CASE ~ok ->
                 /\ Finish(t, "failed", "error", files, store)
                 /\ UNCHANGED <<files, recentHashes, touched, lastAdd>>
            [] ok /\ findFirst(store, fileHash) ->
                 /\ Insert(fileHash)
                 /\ files' = removeFileSafely(files, p)
                 /\ Finish(t, "duplicate", "store",
                           removeFileSafely(files, p), store)
            [] ok /\ ~findFirst(store, fileHash) ->
                 /\ tasks' = [tasks EXCEPT ![t].pc = "stat"]
                 /\ UNCHANGED <<files, recentHashes, touched, lastAdd, out,
                                writers>>
       /\ UNCHANGED <<process, gateway, isEnabled, prisma, store, inbox>>

\* prisma.fileHash.findFirst settles. An error is caught by isDuplicate,
\* which answers false. A row found: addToCache, answer true, the file is
\* removed. No row: recordFile starts with fs.promises.stat.
LookupDone(t, ok) ==
    LET i == tasks[t].idx
        p == PathOf(t, i)
        fileHash == tasks[t].fileHash
    IN /\ Quiet
       /\ tasks[t].pc = "lookup"
       /\ ~ok => MayFail
       /\ faults' = IF ok THEN faults ELSE faults + 1
       /\ CASE ~ok ->
                 /\ Finish(t, "saved", "error", files, store)
                 /\ UNCHANGED <<files, recentHashes, touched, lastAdd>>
            [] ok /\ findFirst(store, fileHash) ->
                 /\ Insert(fileHash)
                 /\ files' = removeFileSafely(files, p)
                 /\ Finish(t, "duplicate", "store",
                           removeFileSafely(files, p), store)
            [] ok /\ ~findFirst(store, fileHash) ->
                 /\ tasks' = [tasks EXCEPT ![t].pc = "stat"]
                 /\ UNCHANGED <<files, recentHashes, touched, lastAdd, out,
                                writers>>
       /\ UNCHANGED <<process, gateway, isEnabled, prisma, store, inbox>>

\* fs.promises.stat settles inside recordFile. An error is caught by
\* recordFile and isDuplicate answers false. Otherwise addToCache, and the
\* upsert is sent when there is a store.
StatDone(t, ok) ==
    LET i == tasks[t].idx
        p == PathOf(t, i)
        fileHash == tasks[t].fileHash
    IN /\ Quiet
       /\ tasks[t].pc = "stat"
       /\ files[p] = NULL => ~ok
       /\ (~ok /\ files[p] # NULL) => MayFail
       /\ faults' = IF ~ok /\ files[p] # NULL THEN faults + 1 ELSE faults
       /\ CASE ~ok ->
                 /\ Finish(t, "saved", "error", files, store)
                 /\ UNCHANGED <<recentHashes, touched, lastAdd>>
            [] ok /\ prisma ->
                 /\ Insert(fileHash)
                 /\ tasks' = [tasks EXCEPT ![t].pc = "upsert",
                                           ![t].trips = @ + 1]
                 /\ UNCHANGED <<out, writers>>
            [] ok /\ ~prisma ->
                 /\ Insert(fileHash)
                 /\ Finish(t, "saved", "ok", files, store)
       /\ UNCHANGED <<process, gateway, isEnabled, prisma, store, files,
                      inbox>>

\* An upsert that is sent again after it failed.
UpsertDone_Retry(t, ok) ==
    LET i == tasks[t].idx
        p == PathOf(t, i)
        rows == IF ok THEN upsert(store, p, tasks[t].fileHash) ELSE store
    IN /\ Quiet
       /\ tasks[t].pc = "upsert"
       /\ ~ok => MayFail
       /\ faults' = IF ok THEN faults ELSE faults + 1
       /\ store' = rows
       /\ IF ok
          THEN Finish(t, "saved", "ok", files, rows)
          ELSE /\ tasks' = [tasks EXCEPT ![t].trips = @ + 1]
               /\ UNCHANGED <<out, writers>>
       /\ UNCHANGED <<process, gateway, isEnabled, prisma, recentHashes,
                      touched, lastAdd, files, inbox>>

\* prisma.fileHash.upsert settles. An error is caught by recordFile. Either
\* way isDuplicate answers false and the file is kept.
UpsertDone(t, ok) ==
    LET i == tasks[t].idx
        p == PathOf(t, i)
        rows == IF ok THEN upsert(store, p, tasks[t].fileHash) ELSE store
    IN /\ Quiet
       /\ tasks[t].pc = "upsert"
       /\ ~ok => MayFail
       /\ faults' = IF ok THEN faults ELSE faults + 1
       /\ store' = rows
       /\ Finish(t, "saved", IF ok THEN "ok" ELSE "error", files, rows)
       /\ UNCHANGED <<process, gateway, isEnabled, prisma, recentHashes,
                      touched, lastAdd, files, inbox>>


\* --------------------------------------------------- HealthCheckServer
\* getHealthStatus with Date.now() = t: a null lastHeartbeat gives a null
\* age, which counts as recent.
getHealthStatus(status, t) ==
    LET isHealthy == /\ status.connected
                     /\ \/ status.lastHeartbeat = NoTime
                        \/ t - status.lastHeartbeat < 120000
    IN [status |-> IF isHealthy THEN "healthy" ELSE "unhealthy",
        timestamp |-> t,
        discord |-> status]

\* handleRequest for GET /health, handleHealth and sendResponse: the server
\* listens from init until DiscordMediaSaver.cleanup stops it.
handleHealth ==
    /\ Quiet
    /\ phase = "running" /\ ~cleanedUp
    /\ LET status == getHealthStatus(discordStatus, now)
       IN response' = [http |-> IF status.status = "healthy" THEN 200
                                ELSE 503,
                       body |-> status]
    /\ UNCHANGED <<config, env, named,
                   phase, dbUp, restarts, atRestart, cleanedUp,
                   atCleanup, discordStatus, now, gateway, dedup, downloads>>

\* updateDiscordStatus(connected, lastHeartbeat) on a recorded status: a
\* heartbeat time that is missing or 0 leaves the recorded one; the count
\* goes up when the status changes to connected.
Reported(status, connected, lastHeartbeat) ==
    LET wasConnected == status.connected
    IN [connected |-> connected,
        lastHeartbeat |-> IF lastHeartbeat # NoTime THEN lastHeartbeat
                          ELSE status.lastHeartbeat,
        reconnectCount |-> IF ~wasConnected /\ connected
                           THEN status.reconnectCount + 1
                           ELSE status.reconnectCount]

\* A call of updateDiscordStatus. Its caller passes the current time or
\* nothing.
updateDiscordStatus(connected, lastHeartbeat) ==
    /\ Quiet
    /\ phase = "running"
    /\ lastHeartbeat \in {NoTime, now}
    /\ (~discordStatus.connected /\ connected) =>
           discordStatus.reconnectCount < MaxReconnects
    /\ discordStatus' = Reported(discordStatus, connected, lastHeartbeat)
    /\ UNCHANGED <<config, env, named, phase, dbUp, restarts, atRestart,
                   cleanedUp, atCleanup, now, response, gateway, dedup,
                   downloads>>

\* Time passes.
Tick ==
    /\ \E t \in Times : t > now /\ now' = t
    /\ UNCHANGED <<config, env, named,
                   phase, dbUp, restarts, atRestart, cleanedUp,
                   atCleanup, discordStatus, response, gateway, dedup,
                   downloads>>

\* ------------------------------- DiscordClient with a health check server
\* The client that is given the health check server reports to it: connected
\* when the socket opens, disconnected when it closes, and the time of every
\* heartbeat it sends.
\* ws.on('open')
OpenReported ==
    /\ Quiet
    /\ ws = "connecting"
    /\ discordStatus.reconnectCount < MaxReconnects
    /\ ws' = "open"
    /\ sockets' = sockets
    /\ discordStatus' = Reported(discordStatus, TRUE, NoTime)
    /\ UNCHANGED <<config, env, named, phase, dbUp, restarts, atRestart,
                   cleanedUp, atCleanup, now, response, gotHello,
                   heartbeat, sessionId, sequenceNumber,
                   reconnectTimers, identifyTimers, sent, dedup, downloads>>

\* A close handler that reports nothing.
CloseReported_Silent ==
    /\ Quiet
    /\ phase = "running"
    /\ ws \in {"connecting", "open", "closing"}
    /\ ws' = "closed"
    /\ sockets' = sockets - 1
    /\ reconnectTimers' = reconnectTimers + 1
    /\ UNCHANGED <<process, gotHello, heartbeat, sessionId,
                   sequenceNumber, identifyTimers, sent, dedup, downloads>>

\* ws.on('close')
CloseReported ==
    /\ Quiet
    /\ phase = "running"
    /\ ws \in {"connecting", "open", "closing"}
    /\ ws' = "closed"
    /\ sockets' = sockets - 1
    /\ reconnectTimers' = reconnectTimers + 1
    /\ discordStatus' = Reported(discordStatus, FALSE, NoTime)
    /\ UNCHANGED <<config, env, named, phase, dbUp, restarts, atRestart,
                   cleanedUp, atCleanup, now, response, gotHello,
                   heartbeat, sessionId, sequenceNumber,
                   identifyTimers, sent, dedup, downloads>>

\* The heartbeat interval elapses: sendHeartbeat reports the heartbeat it
\* sends on an open socket.
BeatReported ==
    /\ Quiet
    /\ heartbeatInterval
    /\ sendHeartbeat
    /\ discordStatus' = IF ws = "open"
                        THEN Reported(discordStatus, TRUE, now)
                        ELSE discordStatus
    /\ UNCHANGED <<config, env, named, phase, dbUp, restarts, atRestart,
                   cleanedUp, atCleanup, now, response, gotHello, socket,
                   heartbeat, sessionId, sequenceNumber,
                   reconnectTimers, identifyTimers, dedup, downloads>>

\* ----------------------------------------------------------- FileUtils
\* generateSafeFilename is applied to the filename and the author.
generateName ==
    /\ named.result = <<>>
    /\ named' = [named EXCEPT !.result =
                    generateSafeFilenameText(named.filename, named.username,
                                             toISOString)]
    /\ UNCHANGED <<config, env, phase, dbUp, restarts, atRestart, cleanedUp,
                   atCleanup, health, gateway, dedup, downloads>>
\* ------------------------------------------------------- specifications
Configs(cacheSizes, urls, minImage, maxImage, minVideo, maxVideo) ==
    [maxCacheSize : cacheSizes, databaseUrl : urls,
     minImageSize : minImage, maxImageSize : maxImage,
     minVideoSize : minVideo, maxVideoSize : maxVideo,
     channelIds : {{"c1"}}, blacklistedUserIds : {{"u2"}}]

\* Messages of one attachment drawn from feed.
Singles(feed) == {<<a>> : a \in feed}

\* Every destination the messages of an environment can name.
PathsOf(e) ==
    UNION {{generateSafeFilename(m[i]) : i \in DOMAIN m} :
              m \in UNION {e.messages[t] : t \in Tasks}}

\* The state after construction; saved is what an earlier run of the
\* program left in the save directory.
StartIn(cfgs, e, saved) ==
    /\ config \in cfgs
    /\ env = e
    /\ phase = "constructed"
    /\ dbUp = FALSE
    /\ restarts = 0
    /\ atRestart = [rows |-> [p \in PathsOf(e) |-> NoHash],
                    writers |-> [p \in PathsOf(e) |-> 0]]
    /\ ws = "none"
    /\ heartbeatInterval = FALSE
    /\ intervals = 0
    /\ sockets = 0
    /\ sessionId = NULL
    /\ sequenceNumber = NoSeq
    /\ reconnectTimers = 0
    /\ identifyTimers = 0
    /\ sent = <<>>
    /\ gotHello = FALSE
    /\ cleanedUp = FALSE
    /\ atCleanup = {}
    /\ discordStatus = NoStatus
    /\ now = 1
    /\ response = NoResponse
    /\ isEnabled = FALSE
    /\ prisma = FALSE
    /\ recentHashes = <<>>
    /\ store = [p \in PathsOf(e) |-> NoHash]
    /\ files = [p \in PathsOf(e) |->
                   IF p \in DOMAIN saved THEN saved[p] ELSE NULL]
    /\ inbox = <<>>
    /\ tasks = [t \in Tasks |-> Idle]
    /\ out = [t \in Tasks |-> <<>>]
    /\ writers = [p \in PathsOf(e) |-> 0]
    /\ touched = <<>>
    /\ lastAdd = NoAdd
    /\ faults = 0

\* The state after construction with an empty save directory.
Start(cfgs, e) == StartIn(cfgs, e, <<>>) /\ named = NoName

\* The attachment lists the next MESSAGE_CREATE event may carry.
Incoming ==
    IF Len(inbox) + 1 \in DOMAIN env.messages
    THEN env.messages[Len(inbox) + 1] ELSE {}

\* Startup, the socket opening, messages and their transfers.
Intake ==
    \/ \E connects \in BOOLEAN : init(connects)
    \/ SocketOpen
    \/ \E c \in env.channels, a \in env.authors, m \in Incoming,
          s \in env.seqs :
          MessageCreate(c, a, m, s)
    \/ \E t \in Tasks : Open(t)
    \/ \E t \in Tasks, r \in {"finish", "status", "error"} : TransferDone(t, r)

\* The duplicate check of a transferred file.
Detection ==
    \/ \E t \in Tasks, ok \in BOOLEAN : HashDone(t, ok)
    \/ \E t \in Tasks, ok \in BOOLEAN : LookupDone(t, ok)
    \/ \E t \in Tasks, ok \in BOOLEAN : StatDone(t, ok)
    \/ \E t \in Tasks, ok \in BOOLEAN : UpsertDone(t, ok)

Pipeline == Intake \/ Detection

\* Eligible images only: what varies is the name and the content.
DedupFeed ==
    {Attachment(n, ".png", <<"image", "/", "png">>, 1, b) :
        n \in {"a", "b"}, b \in {"b1", "b2"}}

\* Monitored messages of one eligible attachment each, with and without a
\* store, with I/O failures.
Init ==
    Start(Configs({0, 1, MaxCache}, BOOLEAN, {0}, {3}, {0}, {3}),
          [messages |-> [t \in Tasks |-> Singles(DedupFeed)],
           channels |-> {"c1"}, authors |-> {"u1"}, seqs |-> {1},
           maxMessages |-> MaxMessages, maxFaults |-> MaxFaults,
           maxRestarts |-> 0, maxTimers |-> MaxTimers, maxSent |-> MaxSent])

\* With names that several messages share, an attachment can be skipped
\* in the handler of its message.
Skipping == \E t \in Tasks : Resume(t)

Next == Pipeline \/ Skipping

Spec == Init /\ [][Next]_vars

\* The same pipeline, with a store, in a process that may be restarted:
\* every message brings one eligible attachment under a name of its own.
RestartFeed(t) ==
    {Attachment("m" \o ToString(t), ".png", <<"image", "/", "png">>, 1, b) :
        b \in {"b1", "b2"}}

InitRestart ==
    Start(Configs({0, 1, MaxCache}, {TRUE}, {0}, {3}, {0}, {3}),
          [messages |-> [t \in Tasks |-> Singles(RestartFeed(t))],
           channels |-> {"c1"}, authors |-> {"u1"}, seqs |-> {1},
           maxMessages |-> MaxMessages, maxFaults |-> MaxFaults,
           maxRestarts |-> MaxRestarts, maxTimers |-> MaxTimers,
           maxSent |-> MaxSent])

NextRestart == Pipeline \/ Restart

SpecRestart == InitRestart /\ [][NextRestart]_vars

\* Messages of one or two eligible attachments, every attachment with a
\* file name of its own, a full-size cache and three contents: the first
\* attachment of a message brings one of two, the second the last of these
\* or a third. Only the first two messages bring a second attachment.
LRUAttachment(t, i, b) ==
    Attachment("m" \o ToString(t) \o "-" \o ToString(i), ".png",
               <<"image", "/", "png">>, 1, b)

LRUMessages(t) ==
    {<<LRUAttachment(t, 1, b)>> : b \in {"b1", "b2"}} \cup
    {<<LRUAttachment(t, 1, b), LRUAttachment(t, 2, c)>> :
        b \in {"b1", "b2"}, c \in IF t <= 2 THEN {"b2", "b3"} ELSE {}}

InitLRU ==
    Start(Configs({MaxCache}, {TRUE}, {0}, {3}, {0}, {3}),
          [messages |-> [t \in Tasks |-> LRUMessages(t)],
           channels |-> {"c1"}, authors |-> {"u1"}, seqs |-> {1},
           maxMessages |-> MaxMessages, maxFaults |-> 0,
           maxRestarts |-> 0, maxTimers |-> MaxTimers, maxSent |-> MaxSent])

SpecLRU == InitLRU /\ [][Pipeline]_vars

\* Every extension, content type and declared size, against size limits
\* that differ between images ([1, 2]) and videos ([2, 3]).
FilterFeed ==
    {Attachment("a", e, c, s, "b1") :
        e \in Exts, c \in ContentTypes, s \in Sizes}

\* What follows the first message: attachments that share a destination,
\* one of each pair eligible.
FilterRest ==
    {Attachment("a", ".txt", <<"text", "/", "plain">>, 1, "b1"),
     Attachment("a", ".txt", <<"image", "/", "png">>, 1, "b2"),
     Attachment("a", ".mov", <<>>, 1, "b1"),
     Attachment("a", ".mov", <<>>, 3, "b2")}

InitFilter ==
    Start(Configs({1}, {TRUE}, {1}, {2}, {2}, {3}),
          [messages |-> [t \in Tasks |->
               Singles(IF t = 1 THEN FilterFeed ELSE FilterRest)],
           channels |-> {"c1"}, authors |-> {"u1"}, seqs |-> {1},
           maxMessages |-> MaxMessages, maxFaults |-> 0,
           maxRestarts |-> 0, maxTimers |-> MaxTimers, maxSent |-> MaxSent])

SpecFilter == InitFilter /\ [][Next]_vars

\* The gateway: every frame, close and timer, with messages from a
\* monitored and from an unmonitored channel, and no store configured.
GatewayFeed ==
    {<<>>, <<Attachment("a", ".png", <<"image", "/", "png">>, 1, "b1")>>}

InitGateway ==
    Start(Configs({1}, {FALSE}, {0}, {3}, {0}, {3}),
          [messages |-> [t \in Tasks |-> GatewayFeed],
           channels |-> Channels, authors |-> {"u1"}, seqs |-> {1},
           maxMessages |-> MaxMessages, maxFaults |-> 0,
           maxRestarts |-> 0, maxTimers |-> MaxTimers, maxSent |-> MaxSent])

Gateway ==
    \/ SocketClose
    \/ ReconnectTimer
    \/ Hello
    \/ HeartbeatTick
    \/ HeartbeatAck
    \/ HeartbeatRequest
    \/ Reconnect
    \/ InvalidSession
    \/ IdentifyTimer
    \/ \E s \in env.seqs : Ready(s)
    \/ \E s \in env.seqs : Resumed(s)

NextGateway == Intake \/ Skipping \/ Gateway

SpecGateway == InitGateway /\ [][NextGateway]_vars


\* Messages in the monitored channel from an author who is blacklisted and
\* from one who is not, each with one eligible attachment under a name of
\* its own; transfers may fail.
AuthorFeed(t) ==
    {Attachment("m" \o ToString(t), ".png", <<"image", "/", "png">>, 1, b) :
        b \in {"b1", "b2"}}

InitAuthors ==
    Start(Configs({1}, {FALSE}, {0}, {3}, {0}, {3}),
          [messages |-> [t \in Tasks |-> Singles(AuthorFeed(t))],
           channels |-> {"c1"}, authors |-> Users, seqs |-> {1},
           maxMessages |-> MaxMessages, maxFaults |-> MaxFaults,
           maxRestarts |-> 0, maxTimers |-> MaxTimers, maxSent |-> MaxSent])

SpecAuthors == InitAuthors /\ [][Intake]_vars

\* The connection alone: every frame, close and timer, no message, and a
\* log long enough for an identify, a heartbeat and a second identify.
\* Timers that are due do fire.
InitSession ==
    Start(Configs({1}, {FALSE}, {0}, {3}, {0}, {3}),
          [messages |-> [t \in Tasks |-> {}],
           channels |-> {"c1"}, authors |-> {"u1"}, seqs |-> 1 .. MaxSeq,
           maxMessages |-> MaxMessages, maxFaults |-> 0,
           maxRestarts |-> 0, maxTimers |-> MaxTimers,
           maxSent |-> MaxSent + 2])

NextSession ==
    \/ \E connects \in BOOLEAN : init(connects)
    \/ SocketOpen
    \/ Gateway

SpecSession ==
    /\ InitSession
    /\ [][NextSession]_vars
    /\ WF_vars(ReconnectTimer)
    /\ WF_vars(IdentifyTimer)

\* The connection to a server that sends the hello frame of a connection
\* before any other frame.
NextOrderly ==
    \/ \E connects \in BOOLEAN : init(connects)
    \/ SocketOpen
    \/ SocketClose
    \/ ReconnectTimer
    \/ Hello
    \/ HeartbeatTick
    \/ IdentifyTimer
    \/ gotHello /\ HeartbeatAck
    \/ gotHello /\ HeartbeatRequest
    \/ gotHello /\ Reconnect
    \/ gotHello /\ InvalidSession
    \/ gotHello /\ \E s \in env.seqs : Ready(s)
    \/ gotHello /\ \E s \in env.seqs : Resumed(s)

SpecOrderly == InitSession /\ [][NextOrderly]_vars

\* The connection in a process that may be told to shut down.
NextShutdown ==
    \/ NextSession
    \/ Shutdown
    \/ Exit

SpecShutdown == InitSession /\ [][NextShutdown]_vars

\* ------------------------------------------------------ the status endpoint
\* The health server of a process whose connection status is reported to it.
NextHealth ==
    \/ \E connects \in BOOLEAN : init(connects)
    \/ \E connected \in BOOLEAN, lastHeartbeat \in Times \cup {NoTime} :
          updateDiscordStatus(connected, lastHeartbeat)
    \/ Tick
    \/ handleHealth

SpecHealth == InitSession /\ [][NextHealth]_vars

\* The connection of a client that reports to the health server.
NextTracked ==
    \/ \E connects \in BOOLEAN : init(connects)
    \/ OpenReported
    \/ CloseReported
    \/ ReconnectTimer
    \/ Hello
    \/ BeatReported
    \/ Reconnect
    \/ \E s \in env.seqs : Ready(s)
    \/ Tick
    \/ handleHealth

InitTracked ==
    Start(Configs({1}, {FALSE}, {0}, {3}, {0}, {3}),
          [messages |-> [t \in Tasks |-> {}],
           channels |-> {"c1"}, authors |-> {"u1"}, seqs |-> {1},
           maxMessages |-> MaxMessages, maxFaults |-> 0,
           maxRestarts |-> 0, maxTimers |-> MaxTimers, maxSent |-> MaxSent])

SpecTracked == InitTracked /\ [][NextTracked]_vars

\* ----------------------------------------------- downloads and a shutdown
\* One name, two contents.
StopFeed ==
    {Attachment("a", ".png", <<"image", "/", "png">>, 1, b) :
        b \in {"b1", "b2"}}

InitStop ==
    Start(Configs({1}, {TRUE}, {0}, {3}, {0}, {3}),
          [messages |-> [t \in Tasks |-> Singles(StopFeed)],
           channels |-> {"c1"}, authors |-> {"u1"}, seqs |-> {1},
           maxMessages |-> MaxMessages, maxFaults |-> 0,
           maxRestarts |-> 0, maxTimers |-> MaxTimers, maxSent |-> MaxSent])

\* The pipeline in a process that may be told to shut down.
NextStop ==
    \/ Pipeline
    \/ Skipping
    \/ Shutdown
    \/ Exit

SpecStop == InitStop /\ [][NextStop]_vars

\* ------------------------------------------- messages of two attachments
PairAttachment(t, n, b) ==
    Attachment("m" \o ToString(t) \o "-" \o n, ".png",
               <<"image", "/", "png">>, 1, b)

\* One attachment, or two whose names are the same or differ: no name is
\* shared by two messages. Two messages are enough for every case.
PairMessages(t) ==
    IF t > 2 THEN {}
    ELSE {<<PairAttachment(t, "a", "b1")>>} \cup
         {<<PairAttachment(t, "a", "b1"), PairAttachment(t, n, c)>> :
             n \in {"a", "b"}, c \in {"b1", "b2"}}

InitPairs ==
    Start(Configs({1}, {TRUE}, {0}, {3}, {0}, {3}),
          [messages |-> [t \in Tasks |-> PairMessages(t)],
           channels |-> {"c1"}, authors |-> {"u1"}, seqs |-> {1},
           maxMessages |-> MaxMessages, maxFaults |-> MaxFaults,
           maxRestarts |-> 0, maxTimers |-> MaxTimers, maxSent |-> MaxSent])

SpecPairs == InitPairs /\ [][Pipeline]_vars

\* ------------------------------------------ the order of download starts
OrderAttachment(n, b) ==
    Attachment(n, ".png", <<"image", "/", "png">>, 1, b)

\* The file "old.png" is on disk from an earlier run. The first message
\* may begin with an attachment of that name.
OrderMessages(t) ==
    IF t = 1
    THEN {<<OrderAttachment("old", "b1"), OrderAttachment("m1", "b1")>>,
          <<OrderAttachment("m1", "b1")>>}
    ELSE {<<OrderAttachment("m" \o ToString(t), "b2")>>,
          <<OrderAttachment("old", "b1"),
            OrderAttachment("m" \o ToString(t), "b2")>>}

InitOrder ==
    /\ StartIn(Configs({1}, {FALSE}, {0}, {3}, {0}, {3}),
               [messages |-> [t \in Tasks |-> OrderMessages(t)],
                channels |-> {"c1"}, authors |-> {"u1"}, seqs |-> {1},
                maxMessages |-> MaxMessages, maxFaults |-> MaxFaults,
                maxRestarts |-> 0, maxTimers |-> MaxTimers,
                maxSent |-> MaxSent],
               [p \in {generateSafeFilename(OrderAttachment("old", "b1"))}
                   |-> "b3"])
    /\ named = NoName

SpecOrder == InitOrder /\ [][Intake \/ Skipping]_vars

\* ------------------------------------------------------ generated names
\* Every filename of at most MaxLen characters with every author name.
InitNames ==
    /\ StartIn(Configs({1}, {FALSE}, {0}, {3}, {0}, {3}),
               [messages |-> [t \in Tasks |-> {}],
                channels |-> {"c1"}, authors |-> {"u1"}, seqs |-> {1},
                maxMessages |-> MaxMessages, maxFaults |-> 0,
                maxRestarts |-> 0, maxTimers |-> MaxTimers,
                maxSent |-> MaxSent],
               <<>>)
    /\ named \in [filename : Strings(FileChars, MaxLen),
                  username : UserNames, result : {<<>>}]

SpecNames == InitNames /\ [][generateName]_vars
\* ------------------------------------------------------------- properties
\* The attachments handed to the pipeline, by <<message, index>>.
Handled == UNION {{<<t, i>> : i \in 1 .. Len(out[t])} : t \in Tasks}

Att(d) == inbox[d[1]].attachments[d[2]]
Out(d) == out[d[1]][d[2]]
Path(d) == generateSafeFilename(Att(d))

\* The downloads that opened a write stream.
Started ==
    {d \in Handled :
        Out(d).res \in {"running", "killed", "failed", "duplicate", "saved"}}

\* The transfer of d succeeded and its handling has ended.
Ended(d) == Out(d).res \in {"saved", "duplicate"}

Keys(s) == {s[k] : k \in 1 .. Len(s)}
LastKeys(s, n) == {s[k] : k \in {j \in 1 .. Len(s) : j > Len(s) - n}}

\* C1: after any sequence of addToCache calls by any number of downloads
\* the cache never holds more digests than the configured maximum C, for
\* every C >= 0.
C1_CacheBounded ==
    /\ Len(recentHashes) <= config.maxCacheSize
    /\ Cardinality(Keys(recentHashes)) = Len(recentHashes)

\* More digests than C were inserted and the cache is full, C >= 1.
C1_Witness ==
    /\ config.maxCacheSize >= 1
    /\ Len(touched) > config.maxCacheSize
    /\ Len(recentHashes) = config.maxCacheSize

\* C2: once more than C distinct digests were inserted or looked up, the
\* cache holds exactly the C digests most recently inserted or hit.
C2_KeepsMostRecentlyUsed ==
    Len(touched) > config.maxCacheSize =>
        Keys(recentHashes) = LastKeys(touched, config.maxCacheSize)

\* C3: addToCache with a digest that is in the cache leaves the size as it
\* was and makes the digest the last key, the other keys keeping their
\* order, so that it leaves the cache after all of them.
C3_ReinsertRefreshes ==
    (lastAdd.hash # NoHash /\ Has(lastAdd.cache, lastAdd.hash)) =>
        /\ Len(recentHashes) = Len(lastAdd.cache)
        /\ recentHashes[Len(recentHashes)] = lastAdd.hash
        /\ recentHashes =
               Without(lastAdd.cache, lastAdd.hash) \o <<lastAdd.hash>>

\* A digest that was in the cache, and not as its last key, was re-inserted.
C3_Witness ==
    /\ lastAdd.hash # NoHash
    /\ Has(lastAdd.cache, lastAdd.hash)
    /\ lastAdd.cache[Len(lastAdd.cache)] # lastAdd.hash
    /\ recentHashes[Len(recentHashes)] = lastAdd.hash

\* d2 downloaded the bytes of d1 to another path after d1 had been saved,
\* detection being active for both and the check of d2 running to its end;
\* no other download wrote to either path.
SavedThenAgain(d1, d2) ==
    /\ isEnabled /\ prisma
    /\ Out(d1).res = "saved" /\ Out(d1).active
    /\ Out(d2).active /\ Out(d2).clean /\ Ended(d2)
    /\ d1 \in Out(d2).prior
    /\ Att(d1).url = Att(d2).url
    /\ Path(d1) # Path(d2)
    /\ writers[Path(d1)] = 1 /\ writers[Path(d2)] = 1

\* The file of d2 was deleted and d2 added no row; the store has no more
\* rows than when d2 started if no other download ran since.
Discarded(d2) ==
    /\ Out(d2).res = "duplicate"
    /\ files[Path(d2)] = NULL
    /\ store[Path(d2)] = NoHash
    /\ (\A e \in Started \ {d2} : e \in Out(d2).prior) =>
           RowCount(store) <= Out(d2).rows

Recorded(d1) == store[Path(d1)] = calculateFileHash(Att(d1).url)

C5_ConcurrentCopiesDeduplicated ==
    \A d1 \in Handled, d2 \in Handled :
        ( /\ d1[1] # d2[1]
          /\ faults = 0
          /\ Out(d1).active /\ Out(d2).active
          /\ Ended(d1) /\ Ended(d2)
          /\ d1 \notin Out(d2).prior /\ d2 \notin Out(d1).prior
          /\ Att(d1).url = Att(d2).url
          /\ Path(d1) # Path(d2) )
        => /\ ~(files[Path(d1)] # NULL /\ files[Path(d2)] # NULL)
           /\ Cardinality({f \in DOMAIN store :
                  store[f] = calculateFileHash(Att(d1).url)}) <= 1

\* d was downloaded after the last restart, with detection active and
\* every call of its check succeeding, alone on its path since the restart;
\* the digest of its bytes was in a row at the restart, a row no download
\* has touched since.
KnownBeforeRestart(d) ==
    /\ restarts >= 1 /\ Out(d).epoch = restarts
    /\ Out(d).active /\ Out(d).clean /\ Ended(d)
    /\ writers[Path(d)] = atRestart.writers[Path(d)] + 1
    /\ \E f \in DOMAIN store :
          /\ atRestart.rows[f] = calculateFileHash(Att(d).url)
          /\ writers[f] = atRestart.writers[f]

\* C6: a digest recorded in the store before a restart is found there by
\* the duplicate check of a download of the same bytes after the restart,
\* the cache having started empty, and the file is deleted. A later copy in
\* the same run is found in the cache only because an earlier one was found
\* in the store.
C6_KnownAcrossRestart ==
    \A d \in Handled :
        KnownBeforeRestart(d) =>
            /\ Out(d).res = "duplicate"
            /\ files[Path(d)] = NULL
            /\ Out(d).via \in {"store", "cache"}
            /\ Out(d).via = "cache" =>
                  \E e \in Handled :
                      /\ Out(e).epoch = restarts
                      /\ Att(e).url = Att(d).url
                      /\ Out(e).via = "store"

\* After a restart a download was found to be a duplicate in the store.
C6_Witness ==
    \E d \in Handled :
        /\ KnownBeforeRestart(d)
        /\ Out(d).via = "store"
        /\ files[Path(d)] = NULL

\* Two downloads of the same bytes to different paths whose transfers
\* succeeded, no other download writing to either path.
TwoCopies(d1, d2) ==
    /\ d1 # d2
    /\ Ended(d1) /\ Ended(d2)
    /\ Att(d1).url = Att(d2).url
    /\ Path(d1) # Path(d2)
    /\ writers[Path(d1)] = 1 /\ writers[Path(d2)] = 1

\* C7: without a configured store, or when connecting to it failed, two
\* successful downloads of the same bytes to different paths are both kept.
C7_BothKeptWhenInactive ==
    (phase = "running" /\ ~(config.databaseUrl /\ dbUp)) =>
        \A d1 \in Handled, d2 \in Handled :
            TwoCopies(d1, d2) =>
                /\ Out(d1).res = "saved" /\ Out(d2).res = "saved"
                /\ ~Out(d1).active /\ ~Out(d2).active
                /\ files[Path(d1)] = Att(d1).url
                /\ files[Path(d2)] = Att(d2).url

\* A store is configured, connecting to it failed, and both copies are kept.
C7_Witness ==
    /\ phase = "running" /\ config.databaseUrl /\ ~dbUp
    /\ \E d1 \in Handled, d2 \in Handled :
          /\ TwoCopies(d1, d2)
          /\ files[Path(d1)] = Att(d1).url
          /\ files[Path(d2)] = Att(d2).url

\* The declared size is outside the limits of the attachment's class.
SizeOutside(att) ==
    IF isVideoFile(att.filename, att.content_type)
    THEN att.size < config.minVideoSize \/ att.size > config.maxVideoSize
    ELSE att.size < config.minImageSize \/ att.size > config.maxImageSize

\* No transfer was started for any attachment in ds, and no file exists at
\* a path that only attachments in ds are destined for.
NeverDownloaded(ds) ==
    /\ \A d \in ds : d \notin Started
    /\ \A p \in DOMAIN files :
          (\A d \in Handled : Path(d) = p => d \in ds) =>
              files[p] = NULL /\ writers[p] = 0

\* C8: an attachment whose declared size is below the minimum or above the
\* maximum of its class (the video limits when the extension or the content
\* type is a video's, the image limits otherwise) is never downloaded.
C8_OutsideSizeNeverDownloaded ==
    NeverDownloaded({d \in Handled : SizeOutside(Att(d))})

\* A video one below the video minimum, a size images may have, was skipped.
C8_Witness ==
    \E d \in Handled :
        /\ isVideoFile(Att(d).filename, Att(d).content_type)
        /\ Att(d).size = config.minVideoSize - 1
        /\ Att(d).size >= config.minImageSize
        /\ Out(d).res = "bad_size"

\* Neither a recognised extension, in any case, nor a content type that
\* starts with image/ or video/.
Unrecognised(att) ==
    /\ toLowerCase(att.filename)[2] \notin mediaExtensions
    /\ \/ att.content_type = <<>>
       \/ ~(att.content_type[1] \in {"image", "video"}
            /\ att.content_type[2] = "/")

\* C9: an attachment with neither a recognised media extension nor an
\* image/ or video/ content type is never downloaded.
C9_NonMediaNeverDownloaded ==
    NeverDownloaded({d \in Handled : Unrecognised(Att(d))})

\* A text file of a size images may have was skipped as not media.
C9_Witness ==
    \E d \in Handled :
        /\ Att(d).filename[2] = ".txt"
        /\ Att(d).content_type = <<"text", "/", "plain">>
        /\ ~SizeOutside(Att(d))
        /\ Out(d).res = "not_media"

\* The messages received from channels that are not monitored.
Unmonitored ==
    {t \in 1 .. Len(inbox) : inbox[t].channel_id \notin config.channelIds}

\* C10: no attachment of a MESSAGE_CREATE from a channel that is not
\* monitored reaches the pipeline, whatever the state of the connection and
\* whatever frames came before.
C10_UnmonitoredNeverProcessed ==
    /\ \A t \in Unmonitored : tasks[t] = Idle /\ out[t] = <<>>
    /\ Unmonitored = 1 .. Len(inbox) =>
          \A p \in DOMAIN files : files[p] = NULL /\ writers[p] = 0

\* A message with an attachment came from an unmonitored channel on a
\* socket that was closing, after a hello, an invalid session and a
\* reconnect request.
C10_Witness ==
    \E t \in Unmonitored :
        /\ Len(inbox[t].attachments) > 0
        /\ ws = "closing"
        /\ heartbeatInterval
        /\ identifyTimers > 0


\* C20: when a transfer has failed, by a response that is not 200 or by a
\* request or stream error, and no other download writes to the same
\* destination, no file is left at the destination.
C20_FailedTransferLeavesNoFile ==
    \A d \in Handled :
        (Out(d).res = "failed" /\ writers[Path(d)] = 1) =>
            files[Path(d)] = NULL

\* The messages received in a monitored channel from a blacklisted author.
FromBlacklisted ==
    {t \in 1 .. Len(inbox) :
        /\ isMonitoredChannel(config, inbox[t].channel_id)
        /\ isUserBlacklisted(config, inbox[t].author)}

\* C11: no attachment of a MESSAGE_CREATE in a monitored channel whose
\* author is blacklisted is handed to the download pipeline, and no file is
\* written for it.
C11_BlacklistedNeverProcessed ==
    \A t \in FromBlacklisted :
        /\ tasks[t] = Idle /\ out[t] = <<>>
        /\ \A i \in DOMAIN inbox[t].attachments :
              LET p == generateSafeFilename(inbox[t].attachments[i])
              IN files[p] = NULL /\ writers[p] = 0

\* The step sends one more frame on the current socket, with opcode op.
Sends(op) ==
    /\ Len(sent') = Len(sent) + 1
    /\ sent'[Len(sent')].op = op

\* The log of the current socket has room for one more frame.
Room == Len(sent) < env.maxSent

\* C12: once a hello was received on an open socket the heartbeat timer is
\* live for as long as that socket is open; every elapse of the timer on
\* the open socket sends one heartbeat frame; the d of every heartbeat sent
\* is the sequence number captured last, null if none; and every dispatch
\* that carries a sequence number has it captured.
C12_HeartbeatCarriesSequence ==
    /\ []((gotHello /\ ws = "open") => heartbeatInterval)
    /\ [][(HeartbeatTick /\ ws = "open" /\ Room) =>
             sent' = Append(sent, [op |-> 1, d |-> sequenceNumber])]_vars
    /\ [][Sends(1) => sent'[Len(sent')].d = sequenceNumber]_vars
    /\ [][\A s \in env.seqs :
             (Ready(s) \/ Resumed(s)) => sequenceNumber' = s]_vars

\* After a hello on the open socket a heartbeat went out with the sequence
\* number of a dispatch received before it.
C12_Witness ==
    /\ gotHello /\ ws = "open" /\ heartbeatInterval
    /\ sequenceNumber # NoSeq
    /\ \E k \in 1 .. Len(sent) :
          sent[k] = [op |-> 1, d |-> sequenceNumber]

\* C13: the step that handles a hello sends no identify frame; the identify
\* goes out later, when the identify delay has elapsed.
C13_IdentifyAfterDelay == [][Hello => ~Sends(2)]_vars

\* C14: a closed socket always has a reconnect pending, and every close is
\* followed by a new connect attempt, any number of times.
C14_ReconnectsAfterClose ==
    /\ [](ws = "closed" => reconnectTimers > 0)
    /\ (ws = "closed") ~> (ws = "connecting")

\* A new connect attempt is under way in a process that had a session on an
\* earlier socket.
C14_Witness ==
    /\ ws = "connecting"
    /\ sessionId # NULL
    /\ reconnectTimers = 0

\* C15: the heartbeat timer is live exactly when the current socket is open
\* and has received a hello.
C15_TimerIffOpenAndHello ==
    heartbeatInterval <=> (ws = "open" /\ gotHello)

\* C16: the call of cleanup leaves the heartbeat timer cancelled and the
\* socket closing or closed, and no step after it schedules a reconnect,
\* starts the heartbeat timer or creates a new socket.
C16_CleanupIsTerminal ==
    /\ [][(~cleanedUp /\ cleanedUp') =>
             /\ ~heartbeatInterval'
             /\ ws' \in {"none", "closing", "closed"}]_vars
    /\ [][cleanedUp =>
             /\ reconnectTimers' <= reconnectTimers
             /\ heartbeatInterval' => heartbeatInterval
             /\ ws' = "connecting" => ws = "connecting"]_vars

\* C17: when init's await of connect() resolves, the open event of the
\* socket has occurred.
C17_ResolvesAfterOpen ==
    [][(phase = "constructed" /\ phase' = "running") => ws' = "open"]_vars

\* C18 as stated: the handler of an invalid session clears the session id
\* and leaves the socket and the wire alone; no new socket is created while
\* the identify it scheduled is pending; when the delay has elapsed one
\* identify frame goes out.
C18_ReidentifiesOnSameSocket ==
    /\ [][InvalidSession =>
             (sessionId' = NULL /\ ws' = ws /\ sent' = sent)]_vars
    /\ [](identifyTimers > 0 => ws # "connecting")
    /\ [][(IdentifyTimer /\ Room) =>
             sent' = Append(sent, [op |-> 2, d |-> NoSeq])]_vars

\* C18 for a socket that is still open when the delay has elapsed; on a
\* socket that is closing or closed by then nothing is sent.
C18_ReidentifiesWhileOpen ==
    /\ [][InvalidSession =>
             (sessionId' = NULL /\ ws' = ws /\ sent' = sent)]_vars
    /\ [](identifyTimers > 0 => ws # "connecting")
    /\ [][(IdentifyTimer /\ ws = "open" /\ Room) =>
             sent' = Append(sent, [op |-> 2, d |-> NoSeq])]_vars
    /\ [][(IdentifyTimer /\ ws # "open") => sent' = sent]_vars

\* After an invalid session on an open socket with a session the second
\* identify frame of that socket went out and no session is known.
C18_Witness ==
    /\ ws = "open" /\ gotHello
    /\ sessionId = NULL
    /\ sequenceNumber # NoSeq
    /\ identifyTimers = 0
    /\ Cardinality({k \in 1 .. Len(sent) : sent[k].op = 2}) = 2

\* C19: a step that sends an identify frame leaves no captured sequence
\* number, so that the heartbeats of the new session carry null until a
\* frame of that session brings one.
C19_IdentifyResetsSequence ==
    [][Sends(2) => sequenceNumber' = NoSeq]_vars

\* C21: a download whose duplicate check failed after a successful
\* transfer (hashing, store lookup, stat or upsert) is reported as saved,
\* the loop over the attachments of its message has moved on, and the file
\* is on disk with the transferred content when no other download writes
\* to its path.
C21_CheckFailureKeepsFile ==
    \A d \in Handled :
        (Out(d).active /\ ~Out(d).clean) =>
            /\ Out(d).res = "saved"
            /\ tasks[d[1]].idx > d[2]
            /\ writers[Path(d)] = 1 => files[Path(d)] = Att(d).url

\* The store lookup of a download failed: it went to the store once, has
\* no row, and its file is kept.
C21_Witness ==
    \E d \in Handled :
        /\ Out(d).active /\ ~Out(d).clean
        /\ Out(d).res = "saved"
        /\ Out(d).trips = 1
        /\ store[Path(d)] = NoHash
        /\ files[Path(d)] = Att(d).url

\* C22: when the store lookup of a duplicate check fails, the digest is
\* inserted into the cache all the same (the capacity being at least one),
\* so that a later download of the same bytes is discarded through the
\* cache.
C22_LookupFailureStillCaches ==
    [][\A t \in Tasks :
          (LookupDone(t, FALSE) /\ config.maxCacheSize >= 1) =>
              Has(recentHashes', tasks[t].fileHash)]_vars

\* C23: in a process whose init could not connect to the configured store,
\* the service is inactive and has no client in every state, the gateway
\* connect has been made, and no download of that process is checked for
\* duplicates, goes to the store or is discarded.
C23_FailedConnectDisablesStore ==
    (phase = "running" /\ config.databaseUrl /\ ~dbUp) =>
        /\ ~isActive(isEnabled) /\ ~prisma
        /\ ws # "none"
        /\ \A d \in Handled :
              Out(d).epoch = restarts =>
                  /\ ~Out(d).active
                  /\ Out(d).res # "duplicate"
                  /\ Out(d).trips = 0

\* The process was restarted and could not connect to the store that the
\* first process had recorded a file in; it saved a copy of the same bytes.
C23_Witness ==
    /\ phase = "running" /\ config.databaseUrl /\ ~dbUp
    /\ \E d1 \in Handled, d2 \in Handled :
          /\ Out(d1).epoch < restarts /\ Recorded(d1)
          /\ Out(d2).epoch = restarts /\ Out(d2).res = "saved"
          /\ Att(d1).url = Att(d2).url
          /\ files[Path(d2)] = Att(d2).url

\* The attachment is one processAttachments would download.
Eligible(att) ==
    /\ isMediaFile(att.filename, att.content_type)
    /\ isFileSizeValid(config, att.size,
                       isVideoFile(att.filename, att.content_type))

\* The message received in this step, if any, is handled, and its first
\* attachment is eligible media whose destination already has a file.
FirstExists(t) ==
    /\ Len(inbox) = t - 1 /\ Len(inbox') = t
    /\ isMonitoredChannel(config, inbox'[t].channel_id)
    /\ Len(inbox'[t].attachments) > 0
    /\ LET att == inbox'[t].attachments[1]
       IN Eligible(att) /\ files[generateSafeFilename(att)] # NULL

\* C28: an eligible attachment whose destination file already exists is
\* skipped: it is reported as existing, no write stream or transfer is
\* started for it, the files, the cache and the store are left as they
\* were, and it never goes through the duplicate check afterwards.
C28_ExistingFileSkipped ==
    /\ [][\A t \in Tasks :
            FirstExists(t) =>
                /\ out'[t][1].res = "exists"
                /\ tasks'[t].pc = "skipped"
                /\ files' = files
                /\ store' = store
                /\ recentHashes' = recentHashes
                /\ writers' = writers]_vars
    /\ [](\A d \in Handled :
            Out(d).res = "exists" =>
                ~Out(d).active /\ Out(d).trips = 0 /\ Out(d).via = NULL)

\* An attachment was skipped because a saved file has its name.
C28_Witness ==
    \E d1 \in Handled, d2 \in Handled :
        /\ Out(d1).res = "saved" /\ Out(d2).res = "exists"
        /\ Path(d1) = Path(d2)
        /\ files[Path(d2)] = Att(d1).url
        /\ Att(d2).url # Att(d1).url

\* C29 as stated: a saved file whose digest was in neither the cache nor
\* the store, and whose duplicate check met no failure, took at most one
\* round trip to the store.
C29_OneRoundTrip ==
    \A d \in Handled :
        (Out(d).res = "saved" /\ Out(d).active /\ Out(d).clean) =>
            Out(d).trips <= 1

\* C29, amended: such a file takes at most two round trips, the lookup and
\* the upsert; a file discarded as a duplicate takes at most the lookup,
\* and none when the cache answers.
C29_TwoRoundTrips ==
    \A d \in Handled :
        /\ (Out(d).res = "saved" /\ Out(d).active /\ Out(d).clean) =>
               Out(d).trips <= 2
        /\ Out(d).res = "duplicate" => Out(d).trips <= 1
        /\ Out(d).via = "cache" => Out(d).trips = 0

\* A unique file was saved and recorded with a lookup and an upsert.
C29_Witness ==
    \E d \in Handled :
        /\ Out(d).res = "saved" /\ Out(d).active /\ Out(d).clean
        /\ Out(d).trips = 2
        /\ Recorded(d)

\* C30: no step removes a row of the store; a step that changes the store
\* is the upsert of one download, which writes the digest of that download
\* to the row of its filename and leaves every other row as it was.
C30_RowsNeverDeleted ==
    [][/\ \A f \in DOMAIN store : store[f] # NoHash => store'[f] # NoHash
       /\ store' # store =>
              \E t \in Tasks :
                  /\ tasks[t].pc = "upsert"
                  /\ store' = [store EXCEPT ![PathOf(t, tasks[t].idx)] =
                                  tasks[t].fileHash]]_vars

\* Two downloads with one filename were both upserted: one row holds the
\* digest of the later one.
C30_Witness ==
    \E d1 \in Handled, d2 \in Handled :
        /\ d1 # d2 /\ Path(d1) = Path(d2)
        /\ Out(d1).res = "saved" /\ Out(d1).clean /\ Out(d1).trips = 2
        /\ Out(d2).res = "saved" /\ Out(d2).clean /\ Out(d2).trips = 2
        /\ Att(d1).url # Att(d2).url
        /\ store[Path(d1)] = calculateFileHash(Att(d2).url)
        /\ RowCount(store) = 1

InFlight == InProgress

\* C25: the step that handles a MESSAGE_CREATE frame ends with the first
\* download of the message merely started: it changes no file, cache entry
\* or row and moves no download of another message. While downloads are in
\* progress every frame that arrives can be handled, the next message
\* included, and the heartbeat timer can fire.
C25_HandlerNeverWaits ==
    /\ [][Len(inbox') > Len(inbox) =>
            /\ files' = files /\ store' = store
            /\ recentHashes' = recentHashes
            /\ tasks'[Len(inbox')].pc \in {"idle", "open", "skipped", "done"}
            /\ \A u \in InFlight : tasks'[u] = tasks[u]]_vars
    /\ []((InFlight # {} /\ phase = "running" /\ ws \in {"open", "closing"})
             => /\ ENABLED Hello
                /\ ENABLED HeartbeatAck
                /\ ENABLED HeartbeatRequest
                /\ ENABLED Reconnect
                /\ identifyTimers < env.maxTimers => ENABLED InvalidSession
                /\ \A s \in env.seqs : ENABLED Ready(s)
                /\ Len(inbox) < env.maxMessages =>
                       \A c \in env.channels, a \in env.authors,
                          m \in Incoming, s \in env.seqs :
                           ENABLED MessageCreate(c, a, m, s))
    /\ []((InFlight # {} /\ Quiet /\ heartbeatInterval) =>
             ENABLED HeartbeatTick)

\* The second message was handled while the download of the first had not
\* moved, with the heartbeat timer running.
C25_Witness ==
    /\ Cardinality(InFlight) = 2
    /\ \A t \in InFlight : tasks[t].pc = "open"
    /\ heartbeatInterval /\ ws = "open"

\* C24: the answer to GET /health is "unhealthy", with status 503, exactly
\* when the recorded status is not connected or the recorded heartbeat is
\* more than 120000 ms older than the time of the request; otherwise, also
\* at an age of exactly 120000 ms and with no heartbeat recorded, it is
\* "healthy" with status 200.
C24_UnhealthyIffStale ==
    response.http # 0 =>
        LET body == response.body
            lastHeartbeat == body.discord.lastHeartbeat
            stale == /\ lastHeartbeat # NoTime
                     /\ body.timestamp - lastHeartbeat > 120000
            unhealthy == ~body.discord.connected \/ stale
        IN /\ body.status = IF unhealthy THEN "unhealthy" ELSE "healthy"
           /\ response.http = IF unhealthy THEN 503 ELSE 200

\* C26: a download that was in progress when cleanup() was called is never
\* cut off: it goes on to its own end.
C26_DownloadsOutliveCleanup ==
    \A d \in atCleanup : Out(d).res # "killed"

\* ------------------------------------------------------------ C31 .. C39
\* The attachments for which downloadFile was called.
Attempted(p) ==
    {d \in Handled :
        /\ Path(d) = p
        /\ Out(d).res \notin {"pending", "not_media", "bad_size", "exists"}}

\* C31: every attachment that is downloaded gets one write stream and one
\* request, a failed one included; after a failed download the loop over
\* the attachments of its message has moved on, and an attachment after it
\* waits only while an attachment between the two is being downloaded.
C31_FailureTriedOnceAndPassed ==
    /\ \A p \in DOMAIN writers : writers[p] = Cardinality(Attempted(p))
    /\ \A d \in Handled :
          Out(d).res = "failed" =>
              /\ tasks[d[1]].idx > d[2]
              /\ \A j \in d[2] + 1 .. Len(out[d[1]]) :
                    out[d[1]][j].res = "pending" =>
                        \E k \in d[2] + 1 .. j - 1 :
                            \/ out[d[1]][k].res = "running"
                            \/ tasks[d[1]] = [Idle EXCEPT !.idx = k,
                                                          !.pc = "skipped"]

\* The first attachment of a message failed; the second one was saved, and
\* so was an attachment of another message that was started afterwards.
C31_Witness ==
    \E d \in Handled, e \in Handled :
        /\ d[2] = 1 /\ Out(d).res = "failed"
        /\ Len(out[d[1]]) = 2 /\ out[d[1]][2].res = "saved"
        /\ e[1] # d[1] /\ Out(e).res = "saved" /\ d \in Out(e).prior

\* Two eligible attachments of one message, d1 before d2, with the same
\* destination, which no attachment of another message has.
SameNamePair(d1, d2) ==
    /\ d1[1] = d2[1] /\ d1[2] < d2[2]
    /\ Eligible(Att(d1)) /\ Eligible(Att(d2))
    /\ Path(d1) = Path(d2)
    /\ \A e \in Handled : e[1] # d1[1] => Path(e) # Path(d1)

\* C38 as stated: the later attachment of such a pair, once its turn has
\* come, was skipped as already existing.
C38_LaterAlwaysSkipped ==
    \A d1 \in Handled, d2 \in Handled :
        (SameNamePair(d1, d2) /\ Out(d2).res # "pending") =>
            Out(d2).res = "exists"

\* C38, amended: at most one attachment of such a pair is saved; when the
\* earlier one was saved the later one is skipped as already existing; the
\* later one is downloaded only after the download of the earlier one
\* failed or was discarded as a duplicate.
C38_AtMostOneSaved ==
    \A d1 \in Handled, d2 \in Handled :
        SameNamePair(d1, d2) =>
            /\ ~(Out(d1).res = "saved" /\ Out(d2).res = "saved")
            /\ Out(d1).res = "saved" =>
                   Out(d2).res \in {"pending", "exists"}
            /\ d2 \in Attempted(Path(d2)) =>
                   Out(d1).res \in {"failed", "duplicate"}

\* The earlier attachment was saved and the later one, with another
\* content, was skipped.
C38_Witness ==
    \E d1 \in Handled, d2 \in Handled :
        /\ SameNamePair(d1, d2)
        /\ Att(d1).url # Att(d2).url
        /\ Out(d1).res = "saved" /\ Out(d2).res = "exists"
        /\ files[Path(d1)] = Att(d1).url

\* A download of message t has been started.
HasStarted(t) ==
    \E j \in 1 .. Len(out[t]) :
        out[t][j].res \notin {"pending", "not_media", "bad_size", "exists"}

\* This step starts the first download of message t.
StartsFirst(t) ==
    /\ ~HasStarted(t)
    /\ \E j \in 1 .. Len(out'[t]) : out'[t][j].res = "running"

\* Attachment k is the first eligible attachment of message t.
FirstEligible(t, k) ==
    /\ k \in 1 .. Len(out[t])
    /\ Eligible(inbox[t].attachments[k])
    /\ \A j \in 1 .. k - 1 : ~Eligible(inbox[t].attachments[j])

\* C32 as stated: the first download of a message is never started after
\* a download of a message that was received later.
C32_StartedInOrder ==
    [][\A tA \in Tasks, tB \in Tasks :
          (tA < tB /\ StartsFirst(tA)) => ~HasStarted(tB)]_vars

\* C32, amended: when a download of a later message has been started, the
\* first eligible attachment of every earlier message has been looked at;
\* the first download of the earlier message is started after it only when
\* that attachment was skipped because its file existed already.
C32_LookedAtInOrder ==
    \A tA \in Tasks, tB \in Tasks :
        \A k \in 1 .. Len(out[tA]) :
            (tA < tB /\ HasStarted(tB) /\ FirstEligible(tA, k)) =>
                /\ out[tA][k].res # "pending"
                /\ ~HasStarted(tA) => out[tA][k].res = "exists"

\* The downloads of two messages were started in the order of the messages.
C32_Witness ==
    \E tA \in Tasks, tB \in Tasks :
        /\ tA < tB
        /\ HasStarted(tA) /\ HasStarted(tB)
        /\ out[tA][1].res = "running" /\ out[tB][1].res = "running"

\* C33: a generated filename consists of letters, digits, '.', '_' and '-'
\* only.
C33_OnlyAllowedCharacters ==
    \A k \in 1 .. Len(named.result) :
        named.result[k] \in Letters \cup Digits \cup {".", "_", "-"}

\* What GET /health would answer now.
Served == getHealthStatus(discordStatus, now).status

C35_NothingBeforeHello == [][(Sends(1) \/ Sends(2)) => gotHello']_vars

\* C36: at most one heartbeat timer is live at any time, and a hello that
\* starts a heartbeat timer while one is live clears it: the number of live
\* timers stays one.
C36_OneHeartbeatTimer ==
    /\ [](intervals <= 1)
    /\ [](heartbeatInterval <=> intervals = 1)
    /\ [][(Hello /\ heartbeatInterval) => intervals' = intervals]_vars

\* The timer of an earlier connection has sent a heartbeat on this
\* connection before its hello, and the hello has replaced it.
C36_Witness ==
    /\ ws = "open" /\ gotHello
    /\ Len(sent) >= 2 /\ sent[1].op = 1 /\ sent[2].op = 2
    /\ intervals = 1

\* C37: at most one socket is connecting or open at any time; a step that
\* closes a socket schedules exactly one reconnect; connect is called only
\* when no socket is left; and pending reconnects and live sockets together
\* never number more than one, whatever closes, reconnect directives and
\* cleanup calls there were.
C37_OneReconnectChain ==
    /\ [](sockets <= 1)
    /\ [](sockets + reconnectTimers <= 1)
    /\ [][sockets' < sockets /\ phase' = "running" =>
             reconnectTimers' = reconnectTimers + 1]_vars
    /\ [][sockets' > sockets => (sockets = 0 /\ ws \in {"none", "closed"})]_vars

\* After cleanup the socket has closed, the reconnect that its close
\* scheduled has opened the next socket.
C37_Witness ==
    /\ cleanedUp /\ phase = "running"
    /\ ws = "open" /\ sockets = 1 /\ reconnectTimers = 0

\* C39: a check whose digest is not in the cache and has a row in the store
\* answers duplicate, leaves the store as it was and puts the digest into
\* the cache (the capacity being at least one); and a check whose digest is
\* in the cache answers duplicate without a query to the store.
C39_StoreHitFillsCache ==
    [][\A t \in Tasks :
          /\ (LookupDone(t, TRUE) /\ findFirst(store, tasks[t].fileHash)) =>
                 /\ out'[t][tasks[t].idx].res = "duplicate"
                 /\ store' = store
                 /\ config.maxCacheSize >= 1 =>
                        Has(recentHashes', tasks[t].fileHash)
          /\ (/\ HashDone(t, TRUE)
              /\ Has(recentHashes,
                     calculateFileHash(files[PathOf(t, tasks[t].idx)]))) =>
                 /\ out'[t][tasks[t].idx].res = "duplicate"
                 /\ out'[t][tasks[t].idx].trips = 0
                 /\ tasks'[t].pc # "lookup"
                 /\ store' = store]_vars

\* Two attachments of one message with the same bytes: the first was
\* answered from the store, the second, checked after it, from the cache.
C39_Witness ==
    \E t \in Tasks :
        \E i1 \in 1 .. Len(out[t]), i2 \in 1 .. Len(out[t]) :
            /\ i1 < i2
            /\ Att(<<t, i1>>).url = Att(<<t, i2>>).url
            /\ out[t][i1].res = "duplicate" /\ out[t][i1].via = "store"
            /\ out[t][i1].trips = 1
            /\ out[t][i2].res = "duplicate" /\ out[t][i2].via = "cache"
            /\ out[t][i2].trips = 0
====
